---- MODULE Spec2Model ----
(***************************************************************************)
(* Model of the db-service data access layer: the MySQL, MongoDB and       *)
(* DynamoDB drivers behind DB.getInstance, the retry wrapper of the MySQL  *)
(* driver and the transaction handlers of the MySQL and MongoDB drivers.   *)
(*                                                                         *)
(* One caller issues calls against one driver instance.  The backing       *)
(* store of the driver's table is the sequence `table`; a statement given  *)
(* to the pool (MySQL), to the collection (MongoDB) or to the document     *)
(* client (DynamoDB) outside a native transaction takes effect on `table`  *)
(* at once, a statement given to an open native transaction is kept in     *)
(* `txLog` until that transaction commits or is discarded.                 *)
(***************************************************************************)
EXTENDS Integers, Sequences, FiniteSets, TLC

(* ---------------- bounds of the model ---------------- *)
MaxRows == 2        \* rows the table can hold
MaxTxLen == 2       \* actions in a transaction
MaxBulk == 2        \* items in a bulkInsert array

(* ---------------- program constants ---------------- *)
maxRetries == 3
retryDelay == 1000

(* ---------------- records, objects ---------------- *)
NULL == -99                     \* SQL NULL / absent attribute of a stored record
Fields == {"a", "b"}            \* the columns of the table
KeyField == "a"                 \* the key attribute of the DynamoDB table
Vals == {1, 2}                  \* the values a column takes

\* A JavaScript object Record<string, any> with scalar values: its entries in
\* insertion order, as Object.keys / Object.values enumerate them.
Objs(n) ==
    LET Pairs == Fields \X Vals
        DistinctKeys(o) == \A i, j \in 1..Len(o) : i # j => o[i][1] # o[j][1]
    IN  {o \in UNION {[1..k -> Pairs] : k \in 0..n} : DistinctKeys(o)}
\* condition objects name any of the columns; data objects name at most one
Conds == Objs(Cardinality(Fields))
Datas == {o \in Conds : Len(o) <= 1}

One(f, v) == <<(<<f, v>>)>>
Keys(o) == {o[i][1] : i \in 1..Len(o)}
HasKey(o, f) == \E i \in 1..Len(o) : o[i][1] = f
ValueOf(o, f) == o[CHOOSE i \in 1..Len(o) : o[i][1] = f][2]
FirstKey(o) == IF Len(o) > 0 THEN o[1][1] ELSE "undefined"
FirstValue(o) == IF Len(o) > 0 THEN o[1][2] ELSE NULL

Min(x, y) == IF x < y THEN x ELSE y

(* ---------------- predicates of the backends ---------------- *)
\* "k1 = ? AND k2 = ? ..." / a MongoDB filter document / a DynamoDB filter;
\* col = ? with a bound value is never true of a NULL column or an unknown column
MatchAll(r, c) ==
    \A i \in 1..Len(c) : c[i][1] \in Fields /\ c[i][2] # NULL /\ r[c[i][1]] = c[i][2]
\* SET k1 = ?, k2 = ? / $set
SetFields(r, d) == [f \in Fields |-> IF HasKey(d, f) THEN ValueOf(d, f) ELSE r[f]]
\* the stored record of an object: the columns it does not name are NULL
RowOf(d) == SetFields([f \in Fields |-> NULL], d)
\* $inc / if_not_exists(f, 0) + n
IncField(r, f, n) == [r EXCEPT ![f] = IF r[f] = NULL THEN n ELSE r[f] + n]

\* the rows a WHERE clause / filter selects, and the first of them
Matching(t, w) == {i \in 1..Len(t) : MatchAll(t[i], w)}
InRange(t) == \A i \in 1..Len(t) : \A f \in Fields : t[i][f] = NULL \/ t[i][f] \in Vals

(* ---------------- statements and their effect on a table ---------------- *)
\* A statement as the driver hands it to the backend.  `where` is the list of
\* <<column, bound value>> equalities the statement text carries.
Stmt(kind, data, where, field, amount, items) ==
    [kind |-> kind, data |-> data, where |-> where, field |-> field,
     amount |-> amount, items |-> items]

\* What a backend answers: ok = FALSE is a statement the backend rejects.
Answer(ok, tbl, n, rows) == [ok |-> ok, tbl |-> tbl, n |-> n, rows |-> rows]
Rejected(t) == Answer(FALSE, t, 0, <<>>)

KnownColumns(w) == \A i \in 1..Len(w) : w[i][1] \in Fields
Targets(t, w, one) ==
    LET all == Matching(t, w)
    IN  IF one /\ all # {} THEN {CHOOSE i \in all : \A j \in all : i <= j} ELSE all
Remove(t, S) ==
    LET keep(i) == i \notin S
        F[i \in 0..Len(t)] ==
            IF i = 0 THEN <<>>
            ELSE IF keep(i) THEN Append(F[i - 1], t[i]) ELSE F[i - 1]
    IN  F[Len(t)]
Changed(t, u) == {i \in 1..Len(t) : t[i] # u[i]}

\* INSERT INTO t (cols) VALUES (...), (...) / insertOne
RunInsert(t, items) ==
    IF Len(t) + Len(items) > MaxRows THEN Rejected(t)
    ELSE Answer(TRUE, t \o items, Len(items), <<>>)

\* UPDATE t SET ... WHERE ... (affectedRows: the rows found) /
\* updateOne(filter, {$set}) (modifiedCount: the documents changed)
RunUpdate(t, data, w, one) ==
    IF ~KnownColumns(w) THEN Rejected(t)
    ELSE LET S == Targets(t, w, one)
             u == [i \in 1..Len(t) |-> IF i \in S THEN SetFields(t[i], data) ELSE t[i]]
         IN  Answer(TRUE, u, IF one THEN Cardinality(Changed(t, u)) ELSE Cardinality(S), <<>>)

\* UPDATE t SET f = f + ? WHERE ...
RunAdd(t, field, amount, w) ==
    IF ~KnownColumns(w) \/ field \notin Fields THEN Rejected(t)
    ELSE LET S == Targets(t, w, FALSE)
             \* SET f = f + ?: NULL + n is NULL
             AddTo(r) == [r EXCEPT ![field] = IF r[field] = NULL THEN NULL ELSE r[field] + amount]
             u == [i \in 1..Len(t) |-> IF i \in S THEN AddTo(t[i]) ELSE t[i]]
         IN  IF InRange(u) THEN Answer(TRUE, u, Cardinality(S), <<>>) ELSE Rejected(t)

\* updateOne(filter, {$inc: deltas})
RunInc(t, deltas, w) ==
    LET S == Targets(t, w, TRUE)
        inc(r) == [f \in Fields |->
                     IF HasKey(deltas, f) THEN IncField(r, f, ValueOf(deltas, f))[f] ELSE r[f]]
        u == [i \in 1..Len(t) |-> IF i \in S THEN inc(t[i]) ELSE t[i]]
    IN  IF InRange(u) THEN Answer(TRUE, u, Cardinality(Changed(t, u)), <<>>) ELSE Rejected(t)

\* DELETE FROM t WHERE ... / deleteOne(filter)
RunDelete(t, w, one) ==
    IF ~KnownColumns(w) THEN Rejected(t)
    ELSE LET S == Targets(t, w, one)
         IN  Answer(TRUE, Remove(t, S), Cardinality(S), <<>>)

\* SELECT COUNT(*) as count FROM t [WHERE ...] / countDocuments(filter)
RunCount(t, w) ==
    IF ~KnownColumns(w) THEN Rejected(t)
    ELSE Answer(TRUE, t, Cardinality(Targets(t, w, FALSE)), <<>>)

\* SELECT * FROM t WHERE ... LIMIT 1 / findOne(filter)
RunSelectOne(t, w) ==
    IF ~KnownColumns(w) THEN Rejected(t)
    ELSE LET S == Targets(t, w, TRUE)
         IN  Answer(TRUE, t, 0, IF S = {} THEN <<>> ELSE <<t[CHOOSE i \in S : TRUE]>>)

\* DynamoDB: every item carries the key attribute, one item per key value
ValidKey(k) == Len(k) = 1 /\ k[1][1] = KeyField
ItemAt(t, k) == Matching(t, k)

\* put(Item): replaces the item of the same key, else adds one
RunPut(t, data) ==
    IF ~HasKey(data, KeyField) THEN Rejected(t)
    ELSE LET k == <<(<<KeyField, ValueOf(data, KeyField)>>)>>
             S == ItemAt(t, k)
         IN  IF S # {}
             THEN Answer(TRUE, [i \in 1..Len(t) |-> IF i \in S THEN RowOf(data) ELSE t[i]], 1, <<>>)
             ELSE RunInsert(t, <<RowOf(data)>>)

\* update(Key, "SET #k = :k, ..."): changes the item of that key, or creates it
RunUpdateItem(t, data, k) ==
    IF ~ValidKey(k) \/ HasKey(data, KeyField) \/ Len(data) = 0 THEN Rejected(t)
    ELSE LET S == ItemAt(t, k)
         IN  IF S # {}
             THEN Answer(TRUE, [i \in 1..Len(t) |-> IF i \in S THEN SetFields(t[i], data) ELSE t[i]],
                         Cardinality(S), <<>>)
             ELSE RunInsert(t, <<SetFields(RowOf(k), data)>>)

\* delete(Key): removes the item of that key if there is one
RunDeleteItem(t, k) ==
    IF ~ValidKey(k) THEN Rejected(t)
    ELSE Answer(TRUE, Remove(t, ItemAt(t, k)), Cardinality(ItemAt(t, k)), <<>>)

\* get(Key)
RunGetItem(t, k) ==
    IF ~ValidKey(k) THEN Rejected(t)
    ELSE Answer(TRUE, t, 0, IF ItemAt(t, k) = {} THEN <<>> ELSE <<t[CHOOSE i \in ItemAt(t, k) : TRUE]>>)

\* a statement that carries LIMIT / OFFSET (limit / skip)
PageStmt(kind, where, limit, offset) ==
    [kind |-> kind, data |-> <<>>, where |-> where, field |-> "", amount |-> 0,
     items |-> <<>>, limit |-> limit, offset |-> offset]

\* the rows a filter selects, in table order
Selected(t, w) == LET sel(r) == MatchAll(r, w) IN SelectSeq(t, sel)
Page(rows, limit, offset) == SubSeq(rows, offset + 1, Min(Len(rows), offset + limit))

\* SELECT * FROM t [WHERE ...] LIMIT ? OFFSET ?
RunSelectAll(t, w, limit, offset) ==
    IF ~KnownColumns(w) THEN Rejected(t)
    ELSE Answer(TRUE, t, 0, Page(Selected(t, w), limit, offset))

\* find(filter).sort({}).skip(n).limit(m): a limit of 0 is no limit
RunFind(t, w, limit, offset) ==
    Answer(TRUE, t, 0,
           Page(Selected(t, w), IF limit = 0 THEN Len(t) ELSE limit, offset))

\* scan(TableName): every item of the table
RunScan(t) == Answer(TRUE, t, 0, t)

\* scan with FilterExpression "#k1 = :k1 AND ...": an empty expression is refused
RunScanCount(t, w) ==
    IF Len(w) = 0 THEN Rejected(t)
    ELSE Answer(TRUE, t, Cardinality(Matching(t, w)), <<>>)

\* update(Key, "SET #f = if_not_exists(#f, :zero) + :amount"): changes the item
\* of that key, or creates it
RunIncItem(t, field, amount, k) ==
    IF ~ValidKey(k) \/ field = KeyField \/ field \notin Fields THEN Rejected(t)
    ELSE LET S == ItemAt(t, k)
             u == IF S # {}
                  THEN [i \in 1..Len(t) |-> IF i \in S THEN IncField(t[i], field, amount) ELSE t[i]]
                  ELSE Append(t, IncField(RowOf(k), field, amount))
         IN  IF InRange(u) /\ Len(u) <= MaxRows
             THEN Answer(TRUE, u, 1, <<>>) ELSE Rejected(t)

Run(t, s) ==
    CASE s.kind = "insert"    -> RunInsert(t, s.items)
      [] s.kind = "update"    -> RunUpdate(t, s.data, s.where, FALSE)
      [] s.kind = "updateOne" -> RunUpdate(t, s.data, s.where, TRUE)
      [] s.kind = "add"       -> RunAdd(t, s.field, s.amount, s.where)
      [] s.kind = "inc"       -> RunInc(t, s.data, s.where)
      [] s.kind = "delete"    -> RunDelete(t, s.where, FALSE)
      [] s.kind = "deleteOne" -> RunDelete(t, s.where, TRUE)
      [] s.kind = "select"    -> RunSelectOne(t, s.where)
      [] s.kind = "count"     -> RunCount(t, s.where)
      [] s.kind = "put"       -> RunPut(t, s.data)
      [] s.kind = "updateItem" -> RunUpdateItem(t, s.data, s.where)
      [] s.kind = "deleteItem" -> RunDeleteItem(t, s.where)
      [] s.kind = "getItem"   -> RunGetItem(t, s.where)
      [] s.kind = "selectAll" -> RunSelectAll(t, s.where, s.limit, s.offset)
      [] s.kind = "find"      -> RunFind(t, s.where, s.limit, s.offset)
      [] s.kind = "scan"      -> RunScan(t)
      [] s.kind = "scanCount" -> RunScanCount(t, s.where)
      [] s.kind = "incItem"   -> RunIncItem(t, s.field, s.amount, s.where)
      [] OTHER                -> Rejected(t)

\* The statements of an open native transaction, applied in order at commit.
RECURSIVE RunAll(_, _)
RunAll(t, log) == IF log = <<>> THEN t ELSE RunAll(Run(t, Head(log)).tbl, Tail(log))

(* ---------------- state ---------------- *)
VARIABLES
    dbType,     \* the driver DB.getInstance constructed
    table,      \* committed contents of the driver's table / collection
    txLog,      \* statements issued on the open native transaction
    pc,         \* where the caller is: idle, retry, tx, rollback, release, done
    ret,        \* who called executeWithRetry: "top" caller or "tx"
    call,       \* the public method the caller invoked
    op,         \* the single operation whose statement is being built and sent
    attempt,    \* loop variable of executeWithRetry
    lastError,  \* lastError of executeWithRetry
    calls,      \* invocations of operation() by this executeWithRetry
    delays,     \* the setTimeout delays this executeWithRetry awaited
    errs,       \* the errors operation() threw, in order
    stmts,      \* statements the call in progress handed to pool / collection / client
    result,     \* what the last call returned or threw
    pre,        \* table when the last call was issued
    txActions,  \* argument of transaction()
    txIdx,      \* index of the action being executed
    conn,       \* the connection / session of transaction()
    txErr,      \* the error travelling to the caller of transaction()
    commits,    \* native commits issued by the call
    rollbacks,  \* native rollbacks / aborts issued by the call
    released,   \* releases of the connection / session by the call
    env,        \* process.env holds DB_HOST, DB_USER, DB_PASSWORD and DB_NAME
    instances,  \* the drivers DB.getInstance constructed, oldest first
    pools,      \* connection pools mysql.createPool made in this process
    mongoClient, \* the module variable mongoClient of the MongoDB driver
    clients,    \* MongoClient objects constructed in this process
    connecting, \* drivers inside `await mongoClient.connect()`
    inFlight    \* concurrent calls on one MySQL driver, counted by position

vars == <<dbType, table, txLog, pc, ret, call, op, attempt, lastError, calls, delays,
          errs, stmts, result, pre, txActions, txIdx, conn, txErr,
          commits, rollbacks, released,
          env, instances, pools, mongoClient, clients, connecting, inFlight>>
procVars == <<env, instances, pools, mongoClient, clients, connecting, inFlight>>
callVars == <<table, txLog, pc, ret, call, op, attempt, lastError, calls, delays,
              errs, stmts, result, pre, txActions, txIdx, conn, txErr,
              commits, rollbacks, released>>
retryVars == <<attempt, lastError, calls, delays, errs>>
txVars == <<txActions, txIdx, conn, txErr, commits, rollbacks, released, txLog>>

DbTypes == {"mysql", "mongodb", "dynamodb"}

(* ---------------- calls and results ---------------- *)
Op(name, data, cond, items) ==
    [name |-> name, data |-> data, cond |-> cond, items |-> items, limit |-> 0, offset |-> 0]
\* a call that carries limit and offset
PageOp(name, cond, limit, offset) ==
    [name |-> name, data |-> <<>>, cond |-> cond, items |-> <<>>, limit |-> limit, offset |-> offset]
NoOp == Op("none", <<>>, <<>>, <<>>)
NoResult == [status |-> "none", bool |-> FALSE, num |-> 0, rows |-> <<>>, err |-> ""]
Returned(b, n, rows) == [status |-> "ok", bool |-> b, num |-> n, rows |-> rows, err |-> ""]
Thrown(e) == [status |-> "error", bool |-> FALSE, num |-> 0, rows |-> <<>>, err |-> e]

ErrEmptyData == "Data object cannot be empty"
ErrStructure == "All items in array must have the same structure"
ErrNoPayload == "payload is required for action"
ErrInvalidMethod == "Invalid transaction method"
ErrInvalidType == "Invalid database type selected"
ErrMissingConfig == "Missing required database configuration"
ValidationErrors == {ErrEmptyData, ErrStructure}
\* the error object the backend raises on its k-th failure within a call
BackendError(k) ==
    CASE k = 1 -> "backend error 1" [] k = 2 -> "backend error 2"
      [] k = 3 -> "backend error 3" [] OTHER -> "backend error n"

\* The positions of a call on the pool of one MySQL driver.  A transaction():
\* "getConnection" (queued in await this.pool.getConnection()), "connection"
\* (holds its connection, between two actions), "execute" (inside the public
\* method of an action, queued in await this.pool.execute), "statement" (the
\* statement of the action runs on a second connection of the pool).  A single
\* operation: "poolExecute" (queued), "poolStatement" (its statement runs).
NoCalls ==
    [p \in {"getConnection", "connection", "execute", "statement", "poolExecute",
            "poolStatement"} |-> 0]

\* the process before DB.getInstance was called and before any call is in flight
NoInstances ==
    /\ instances = <<>>
    /\ pools = 0
    /\ mongoClient = "null"
    /\ clients = 0
    /\ connecting = {}
    /\ inFlight = NoCalls

\* no call was issued yet
NoCall ==
    /\ table = <<>> /\ txLog = <<>> /\ pc = "idle" /\ ret = "top" /\ call = "none"
    /\ op = NoOp /\ attempt = 0 /\ lastError = "" /\ calls = 0 /\ delays = <<>>
    /\ errs = <<>> /\ stmts = 0 /\ result = NoResult /\ pre = <<>> /\ txActions = <<>>
    /\ txIdx = 0 /\ conn = "none" /\ txErr = "" /\ commits = 0 /\ rollbacks = 0
    /\ released = 0

Init ==
    /\ dbType \in DbTypes
    /\ NoCall
    /\ env = "configured"
    /\ NoInstances

\* The caller issues a call.
Issue(o) ==
    /\ pc = "idle"
    /\ call' = o.name
    /\ op' = o
    /\ pre' = table
    /\ ret' = "top"
    /\ dbType' = dbType
    /\ UNCHANGED procVars

FreshRetry ==
    /\ attempt' = 0 /\ lastError' = "" /\ calls' = 0 /\ delays' = <<>> /\ errs' = <<>>
FreshTx ==
    /\ txActions' = <<>> /\ txIdx' = 0 /\ conn' = "none" /\ txErr' = ""
    /\ commits' = 0 /\ rollbacks' = 0 /\ released' = 0 /\ txLog' = <<>>

\* The call returns or throws without having reached executeWithRetry.
Finish(r, n) ==
    /\ pc' = "done"
    /\ result' = r
    /\ stmts' = n

(* ---------------- MySQLService: single operations ---------------- *)
\* validateData: throws unless the object has at least one key
validateData(d) == Len(d) # 0

FirstPair(c) == <<(<<FirstKey(c), FirstValue(c)>>)>>
\* bulkInsert binds the flattened values of every item to the column list of
\* the first item, position by position
MySQL_bulkInsertStmt(arr) ==
    LET BulkRow(first, item) == RowOf([k \in 1..Len(first) |-> <<first[k][1], item[k][2]>>])
    IN  Stmt("insert", <<>>, <<>>, "", 0, [i \in 1..Len(arr) |-> BulkRow(arr[1], arr[i])])
\* the two bound values in the wrong order: [conditionValue, amount]
MySQL_incrementStmt_swapped(field, amount, cond) ==
    Stmt("add", <<>>, <<(<<FirstKey(cond), amount>>)>>, field, FirstValue(cond), <<>>)
MySQL_incrementStmt(field, amount, cond) == Stmt("add", <<>>, FirstPair(cond), field, amount, <<>>)
\* SELECT COUNT(*) ... with "WHERE k1 = ? AND ..." only if there are conditions
MySQL_countStmt(conds) == Stmt("count", <<>>, conds, "", 0, <<>>)
\* the second definition of get: "WHERE k1 = ? AND k2 = ? ... LIMIT 1"
MySQL2_getStmt(conds) ==
    IF Len(conds) = 0 THEN Stmt("syntax error", <<>>, <<>>, "", 0, <<>>)
    ELSE Stmt("select", <<>>, conds, "", 0, <<>>)

\* the statement the body of an operation hands to this.pool
OpStmt(o) ==
    CASE o.name = "create"     -> (Stmt("insert", <<>>, <<>>, "", 0, <<RowOf(o.data)>>))
      [] o.name = "bulkInsert" -> MySQL_bulkInsertStmt(o.items)
      [] o.name = "get"        -> (Stmt("select", <<>>, FirstPair(o.cond), "", 0, <<>>))
      [] o.name = "update"     -> (Stmt("update", o.data, FirstPair(o.cond), "", 0, <<>>))
      [] o.name = "increment"  -> MySQL_incrementStmt(FirstKey(o.data), FirstValue(o.data), o.cond)
      [] o.name = "delete"     -> (Stmt("delete", <<>>, FirstPair(o.cond), "", 0, <<>>))
      [] o.name = "count"      -> MySQL_countStmt(o.cond)
      [] o.name = "exists"     -> MySQL_countStmt(o.cond)
      [] o.name = "getAll"     -> (PageStmt("selectAll", o.cond, o.limit, o.offset))
      [] o.name = "get2"       -> MySQL2_getStmt(o.cond)

\* what the body of an operation throws before it reaches this.pool ("" = nothing)
OpPreError(o) ==
    IF o.name # "bulkInsert" THEN ""
    ELSE IF ~validateData(o.items[1]) THEN ErrEmptyData
    ELSE IF \E i \in 1..Len(o.items) : Len(o.items[i]) # Len(o.items[1]) THEN ErrStructure
    ELSE ""

\* the value an operation returns from the backend's answer
OpReturn(o, a) ==
    CASE o.name = "create"     -> Returned(TRUE, Len(a.tbl), <<>>)
      [] o.name = "bulkInsert" -> Returned(TRUE, a.n, <<>>)
      [] o.name \in {"get", "get2"} -> Returned(a.rows # <<>>, 0, a.rows)
      [] o.name = "getAll"     -> Returned(TRUE, Len(a.rows), a.rows)
      [] OTHER                 -> Returned(a.n > 0, a.n, <<>>)

EnterRetry ==
    /\ pc' = "retry"
    /\ attempt' = 1
    /\ lastError' = ""
    /\ calls' = 0
    /\ delays' = <<>>
    /\ errs' = <<>>

MySQL_create(data) ==
    /\ dbType = "mysql"
    /\ Issue(Op("create", data, <<>>, <<>>))
    /\ FreshTx
    /\ IF validateData(data)
       THEN EnterRetry /\ result' = NoResult /\ stmts' = 0
       ELSE FreshRetry /\ Finish(Thrown(ErrEmptyData), 0)
    /\ UNCHANGED table

MySQL_bulkInsert(arr) ==
    /\ dbType = "mysql"
    /\ Issue(Op("bulkInsert", <<>>, <<>>, arr))
    /\ FreshTx
    /\ IF Len(arr) = 0
       THEN FreshRetry /\ Finish(Returned(TRUE, 0, <<>>), 0)
       ELSE EnterRetry /\ result' = NoResult /\ stmts' = 0
    /\ UNCHANGED table

MySQL_get(cond) ==
    /\ dbType = "mysql"
    /\ Issue(Op("get", <<>>, cond, <<>>))
    /\ FreshTx
    /\ IF validateData(cond)
       THEN EnterRetry /\ result' = NoResult /\ stmts' = 0
       ELSE FreshRetry /\ Finish(Thrown(ErrEmptyData), 0)
    /\ UNCHANGED table

MySQL_update(data, cond) ==
    /\ dbType = "mysql"
    /\ Issue(Op("update", data, cond, <<>>))
    /\ FreshTx
    /\ IF validateData(data) /\ validateData(cond)
       THEN EnterRetry /\ result' = NoResult /\ stmts' = 0
       ELSE FreshRetry /\ Finish(Thrown(ErrEmptyData), 0)
    /\ UNCHANGED table

\* increment and delete hand their statement to the pool directly; the
\* backend either answers or fails the statement
PoolExecute(o, fails) ==
    LET a == Run(table, OpStmt(o))
    IN  IF a.ok /\ ~fails
        THEN table' = a.tbl /\ Finish(OpReturn(o, a), 1)
        ELSE table' = table /\ Finish(Thrown(BackendError(1)), 1)

MySQL_increment(field, amount, cond) ==
    /\ dbType = "mysql"
    /\ Issue(Op("increment", <<(<<field, amount>>)>>, cond, <<>>))
    /\ FreshTx /\ FreshRetry
    /\ \E fails \in BOOLEAN :
          PoolExecute(Op("increment", <<(<<field, amount>>)>>, cond, <<>>), fails)

MySQL_delete(cond) ==
    /\ dbType = "mysql"
    /\ Issue(Op("delete", <<>>, cond, <<>>))
    /\ FreshTx /\ FreshRetry
    /\ \E fails \in BOOLEAN : PoolExecute(Op("delete", <<>>, cond, <<>>), fails)

MySQL_count(conds) ==
    /\ dbType = "mysql"
    /\ Issue(Op("count", <<>>, conds, <<>>))
    /\ FreshTx /\ FreshRetry
    /\ \E fails \in BOOLEAN : PoolExecute(Op("count", <<>>, conds, <<>>), fails)

\* exists: (await this.count(condition)) > 0
MySQL_exists(conds) ==
    /\ dbType = "mysql"
    /\ Issue(Op("exists", <<>>, conds, <<>>))
    /\ FreshTx /\ FreshRetry
    /\ \E fails \in BOOLEAN : PoolExecute(Op("exists", <<>>, conds, <<>>), fails)

\* getAll(conditions, {}, limit, offset)
MySQL_getAll(conds, limit, offset) ==
    /\ dbType = "mysql"
    /\ Issue(PageOp("getAll", conds, limit, offset))
    /\ FreshTx /\ FreshRetry
    /\ \E fails \in BOOLEAN : PoolExecute(PageOp("getAll", conds, limit, offset), fails)

\* get as the second definition of the class in my-sql-db.ts has it
MySQL2_get(conds) ==
    /\ dbType = "mysql"
    /\ Issue(Op("get2", <<>>, conds, <<>>))
    /\ FreshTx /\ FreshRetry
    /\ \E fails \in BOOLEAN : PoolExecute(Op("get2", <<>>, conds, <<>>), fails)

(* ---------------- MySQLService.executeWithRetry ---------------- *)
\* lastError = error
NextLastError_keepFirst(old, e) == IF old = "" THEN e ELSE old
NextLastError(old, e) == e

\* operation() resolves: executeWithRetry returns its value
AttemptReturns ==
    /\ pc = "retry"
    /\ attempt <= maxRetries
    /\ OpPreError(op) = ""
    /\ LET a == Run(table, OpStmt(op))
       IN  /\ a.ok
           /\ table' = a.tbl
           /\ IF ret = "top"
              THEN /\ pc' = "done" /\ result' = OpReturn(op, a)
                   /\ UNCHANGED <<txIdx>>
              ELSE /\ pc' = "tx" /\ txIdx' = txIdx + 1
                   /\ UNCHANGED <<result>>
    /\ calls' = calls + 1
    /\ stmts' = stmts + 1
    /\ UNCHANGED <<procVars, dbType, call, ret, op, attempt, lastError, delays, errs, pre,
                   txActions, conn, txErr, commits, rollbacks, released, txLog>>

\* operation() rejects: the error is kept and, unless this was the last
\* attempt, a delay is awaited; the loop goes on to its next iteration
AttemptThrows ==
    /\ pc = "retry"
    /\ attempt <= maxRetries
    /\ LET e == IF OpPreError(op) # "" THEN OpPreError(op) ELSE BackendError(attempt)
       IN  /\ lastError' = NextLastError(lastError, e)
           /\ errs' = Append(errs, e)
    /\ calls' = calls + 1
    /\ stmts' = IF OpPreError(op) # "" THEN stmts ELSE stmts + 1
    \* if (attempt < this.maxRetries) await the delay retryDelay * attempt
    /\ delays' = IF attempt < maxRetries THEN Append(delays, retryDelay * attempt) ELSE delays
    /\ attempt' = attempt + 1
    /\ UNCHANGED <<procVars, dbType, call, table, pc, ret, op, result, pre, txActions, txIdx, conn,
                   txErr, commits, rollbacks, released, txLog>>

\* operation() rejects although the backend applied the statement (the
\* connection is lost or times out before the answer is read): the catch block
\* cannot tell this from a statement that was refused
AttemptThrowsApplied ==
    /\ pc = "retry"
    /\ attempt <= maxRetries
    /\ OpPreError(op) = ""
    /\ LET a == Run(table, OpStmt(op))
       IN  /\ a.ok
           /\ table' = a.tbl
    /\ lastError' = NextLastError(lastError, BackendError(attempt))
    /\ errs' = Append(errs, BackendError(attempt))
    /\ calls' = calls + 1
    /\ stmts' = stmts + 1
    /\ delays' = IF attempt < maxRetries THEN Append(delays, retryDelay * attempt) ELSE delays
    /\ attempt' = attempt + 1
    /\ UNCHANGED <<procVars, dbType, call, pc, ret, op, result, pre, txActions, txIdx, conn,
                   txErr, commits, rollbacks, released, txLog>>

\* the loop is over: throw lastError
RetryExhausted ==
    /\ pc = "retry"
    /\ attempt > maxRetries
    /\ IF ret = "top"
       THEN pc' = "done" /\ result' = Thrown(lastError) /\ UNCHANGED txErr
       ELSE pc' = "rollback" /\ txErr' = lastError /\ UNCHANGED result
    /\ UNCHANGED <<procVars, dbType, call, table, ret, op, attempt, lastError, calls, delays, errs,
                   stmts, pre, txActions, txIdx, conn, commits, rollbacks, released, txLog>>

(* ---------------- MySQLService.transaction ---------------- *)
\* A TransactionAction; hasData / hasCond say whether the property is present
Action(method, hasData, data, hasCond, cond) ==
    [method |-> method, hasData |-> hasData, data |-> data, hasCond |-> hasCond, cond |-> cond]

Methods == {"create", "update", "delete", "increment"}

\* what the loop body throws before it calls a method of the driver
MySQL_actionError(a) ==
    CASE a.method = ""                                      -> "Transaction action method is required"
      [] a.method = "create" /\ ~a.hasData                  -> ErrNoPayload
      [] a.method = "update" /\ ~(a.hasData /\ a.hasCond)    -> ErrNoPayload
      [] a.method = "delete" /\ ~a.hasCond                  -> ErrNoPayload
      [] a.method = "increment" /\ ~(a.hasData /\ a.hasCond) -> ErrNoPayload
      [] a.method \notin Methods                            -> ErrInvalidMethod
      [] OTHER                                              -> ""

\* what the public method throws from validateData before executeWithRetry
MySQL_validationError(a) ==
    CASE a.method = "create" /\ ~validateData(a.data) -> ErrEmptyData
      [] a.method = "update" /\ ~(validateData(a.data) /\ validateData(a.cond)) -> ErrEmptyData
      [] OTHER -> ""

\* the public methods that run their statement through executeWithRetry
Retried(method) == method \in {"create", "update"}

ActionOp(a) == Op(a.method, a.data, a.cond, <<>>)

\* transaction(actions) up to the first action: the empty list is refused,
\* else a connection is taken from the pool and beginTransaction is called on it
MySQL_transaction(actions) ==
    /\ dbType = "mysql"
    /\ Issue(Op("transaction", <<>>, <<>>, <<>>))
    /\ FreshRetry
    /\ txActions' = actions
    /\ commits' = 0 /\ rollbacks' = 0 /\ released' = 0 /\ txLog' = <<>>
    /\ IF Len(actions) = 0
       THEN /\ Finish(Thrown("Transaction actions cannot be empty"), 0)
            /\ txIdx' = 0 /\ conn' = "none" /\ txErr' = ""
       ELSE /\ result' = NoResult /\ stmts' = 0
            /\ \E got \in {"connection", "no connection", "no begin"} :
                  CASE got = "connection" ->
                         pc' = "tx" /\ conn' = "begun" /\ txIdx' = 1 /\ txErr' = ""
                    [] got = "no begin" ->
                         pc' = "rollback" /\ conn' = "acquired" /\ txIdx' = 0
                         /\ txErr' = BackendError(1)
                    [] got = "no connection" ->
                         pc' = "release" /\ conn' = "none" /\ txIdx' = 0
                         /\ txErr' = BackendError(1)
    /\ table' = table

\* the loop body throws: a missing payload, an unknown method, or the
\* validateData of the public method
TxActionThrows ==
    /\ dbType = "mysql" /\ pc = "tx" /\ txIdx <= Len(txActions)
    /\ LET a == txActions[txIdx]
           e == IF MySQL_actionError(a) # "" THEN MySQL_actionError(a)
                ELSE MySQL_validationError(a)
       IN  /\ e # ""
           /\ txErr' = e
    /\ pc' = "rollback"
    /\ UNCHANGED <<procVars, dbType, call, table, ret, op, retryVars, stmts, result, pre, txActions,
                   txIdx, conn, commits, rollbacks, released, txLog>>

\* await this.create(data) / await this.update(data, condition)
TxActionRetried ==
    /\ dbType = "mysql" /\ pc = "tx" /\ txIdx <= Len(txActions)
    /\ LET a == txActions[txIdx]
       IN  /\ MySQL_actionError(a) = "" /\ MySQL_validationError(a) = ""
           /\ Retried(a.method)
           /\ op' = ActionOp(a)
    /\ ret' = "tx"
    /\ EnterRetry
    /\ UNCHANGED <<procVars, dbType, call, table, stmts, result, pre, txVars>>

\* await this.delete(condition) / await this.increment(field, amount, condition)
TxActionDirect ==
    /\ dbType = "mysql" /\ pc = "tx" /\ txIdx <= Len(txActions)
    /\ LET a == txActions[txIdx]
           r == Run(table, OpStmt(ActionOp(a)))
       IN  /\ MySQL_actionError(a) = "" /\ MySQL_validationError(a) = ""
           /\ ~Retried(a.method)
           /\ op' = ActionOp(a)
           /\ \E fails \in BOOLEAN :
                 IF r.ok /\ ~fails
                 THEN table' = r.tbl /\ txIdx' = txIdx + 1 /\ UNCHANGED <<pc, txErr>>
                 ELSE table' = table /\ pc' = "rollback" /\ txErr' = BackendError(1)
                      /\ UNCHANGED txIdx
    /\ stmts' = stmts + 1
    /\ UNCHANGED <<procVars, dbType, call, ret, retryVars, result, pre, txActions, conn,
                   commits, rollbacks, released, txLog>>

\* await connection.commit(); return true
TxCommit ==
    /\ dbType = "mysql" /\ pc = "tx" /\ txIdx > Len(txActions)
    /\ commits' = commits + 1
    /\ \E fails \in BOOLEAN :
          IF fails
          THEN /\ pc' = "rollback" /\ txErr' = BackendError(1)
               /\ UNCHANGED <<table, txLog, conn>>
          ELSE /\ pc' = "release" /\ conn' = "committed"
               /\ table' = RunAll(table, txLog) /\ txLog' = <<>>
               /\ UNCHANGED txErr
    /\ UNCHANGED <<procVars, dbType, call, ret, op, retryVars, stmts, result, pre, txActions, txIdx,
                   rollbacks, released>>

\* catch: if (connection) await connection.rollback(); throw error
TxRollback ==
    /\ dbType = "mysql" /\ pc = "rollback"
    /\ rollbacks' = rollbacks + 1
    /\ txLog' = <<>>
    /\ \E fails \in BOOLEAN :
          IF fails
          THEN conn' = "rollback failed" /\ txErr' = BackendError(2)
          ELSE conn' = "rolled back" /\ UNCHANGED txErr
    /\ pc' = "release"
    /\ UNCHANGED <<procVars, dbType, call, table, ret, op, retryVars, stmts, result, pre, txActions,
                   txIdx, commits, released>>

\* `if (connection)` of the finally block (the release left in the catch
\* block after the rollback would skip a connection whose rollback threw)
HasConnection_unlessRollbackThrew(c) == c \notin {"none", "rollback failed"}
HasConnection(c) == c # "none"

\* finally: if (connection) connection.release(); then the call returns or throws
TxRelease ==
    /\ dbType = "mysql" /\ pc = "release"
    /\ released' = IF HasConnection(conn) THEN released + 1 ELSE released
    /\ pc' = "done"
    /\ result' = IF conn = "committed" THEN Returned(TRUE, 0, <<>>) ELSE Thrown(txErr)
    /\ UNCHANGED <<procVars, dbType, call, table, ret, op, retryVars, stmts, pre, txActions, txIdx,
                   conn, txErr, commits, rollbacks, txLog>>

(* ---------------- MongoDBService ---------------- *)
Mongo_createStmt(data) == Stmt("insert", <<>>, <<>>, "", 0, <<RowOf(data)>>)
Mongo_updateStmt(data, cond) == Stmt("updateOne", data, cond, "", 0, <<>>)
Mongo_incStmt(deltas, cond) == Stmt("inc", deltas, cond, "", 0, <<>>)
Mongo_deleteStmt(cond) == Stmt("deleteOne", <<>>, cond, "", 0, <<>>)

Mongo_countStmt(cond) == Stmt("count", <<>>, cond, "", 0, <<>>)
\* findOne(condition, { projection: { _id: 1 } })
Mongo_existsStmt(cond) == Stmt("select", <<>>, cond, "", 0, <<>>)

\* exists returns record !== null; the others as the MySQL driver's do
Mongo_return(o, a) ==
    CASE o.name = "exists" -> Returned(a.rows # <<>>, 0, <<>>)
      [] OTHER             -> OpReturn(o, a)

\* one call on this.collection outside a session
CollectionCall(o, s, fails) ==
    LET a == Run(table, s)
    IN  IF a.ok /\ ~fails
        THEN table' = a.tbl /\ Finish(Mongo_return(o, a), 1)
        ELSE table' = table /\ Finish(Thrown(BackendError(1)), 1)

Mongo_create(data) ==
    /\ dbType = "mongodb"
    /\ Issue(Op("create", data, <<>>, <<>>))
    /\ FreshTx /\ FreshRetry
    /\ \E fails \in BOOLEAN :
          CollectionCall(Op("create", data, <<>>, <<>>), Mongo_createStmt(data), fails)

Mongo_get(cond) ==
    /\ dbType = "mongodb"
    /\ Issue(Op("get", <<>>, cond, <<>>))
    /\ FreshTx /\ FreshRetry
    /\ \E fails \in BOOLEAN :
          CollectionCall(Op("get", <<>>, cond, <<>>), (Stmt("select", <<>>, cond, "", 0, <<>>)), fails)

Mongo_update(data, cond) ==
    /\ dbType = "mongodb"
    /\ Issue(Op("update", data, cond, <<>>))
    /\ FreshTx /\ FreshRetry
    /\ \E fails \in BOOLEAN :
          CollectionCall(Op("update", data, cond, <<>>), Mongo_updateStmt(data, cond), fails)

Mongo_delete(cond) ==
    /\ dbType = "mongodb"
    /\ Issue(Op("delete", <<>>, cond, <<>>))
    /\ FreshTx /\ FreshRetry
    /\ \E fails \in BOOLEAN :
          CollectionCall(Op("delete", <<>>, cond, <<>>), Mongo_deleteStmt(cond), fails)

Mongo_increment(field, amount, cond) ==
    /\ dbType = "mongodb"
    /\ Issue(Op("increment", One(field, amount), cond, <<>>))
    /\ FreshTx /\ FreshRetry
    /\ \E fails \in BOOLEAN :
          CollectionCall(Op("increment", One(field, amount), cond, <<>>),
                         Mongo_incStmt(One(field, amount), cond), fails)

Mongo_getAll(conds, limit, offset) ==
    /\ dbType = "mongodb"
    /\ Issue(PageOp("getAll", conds, limit, offset))
    /\ FreshTx /\ FreshRetry
    /\ \E fails \in BOOLEAN :
          CollectionCall(PageOp("getAll", conds, limit, offset),
                         (PageStmt("find", conds, limit, offset)), fails)

Mongo_count(cond) ==
    /\ dbType = "mongodb"
    /\ Issue(Op("count", <<>>, cond, <<>>))
    /\ FreshTx /\ FreshRetry
    /\ \E fails \in BOOLEAN :
          CollectionCall(Op("count", <<>>, cond, <<>>), Mongo_countStmt(cond), fails)

Mongo_exists(cond) ==
    /\ dbType = "mongodb"
    /\ Issue(Op("exists", <<>>, cond, <<>>))
    /\ FreshTx /\ FreshRetry
    /\ \E fails \in BOOLEAN :
          CollectionCall(Op("exists", <<>>, cond, <<>>), Mongo_existsStmt(cond), fails)

(* ---------------- MongoDBService.transaction ---------------- *)
\* the call the switch makes for an action ("none": the default branch throws)
Mongo_actionStmt(a) ==
    CASE a.method = "create"    -> Mongo_createStmt(a.data)
      [] a.method = "update"    -> Mongo_updateStmt(a.data, a.cond)
      [] a.method = "delete"    -> Mongo_deleteStmt(a.cond)
      [] a.method = "increment" -> Mongo_incStmt(a.data, a.cond)
      [] OTHER                  -> Stmt("none", <<>>, <<>>, "", 0, <<>>)

\* the call of an action carries { session }
Mongo_onSession_notForCreate(a) == a.method # "create"
Mongo_onSession(a) == TRUE

\* connect, startSession, and withTransaction enters the callback
Mongo_transaction(actions) ==
    /\ dbType = "mongodb"
    /\ Issue(Op("transaction", <<>>, <<>>, <<>>))
    /\ FreshRetry
    /\ txActions' = actions
    /\ commits' = 0 /\ rollbacks' = 0 /\ released' = 0 /\ txLog' = <<>>
    /\ pc' = "tx" /\ conn' = "session" /\ txIdx' = 1 /\ txErr' = ""
    /\ result' = NoResult /\ stmts' = 0
    /\ table' = table

\* one iteration of the loop inside the callback
MongoTxAction ==
    /\ dbType = "mongodb" /\ pc = "tx" /\ txIdx <= Len(txActions)
    /\ LET a == txActions[txIdx]
           s == Mongo_actionStmt(a)
           view == IF Mongo_onSession(a) THEN RunAll(table, txLog) ELSE table
           r == Run(view, s)
       IN  \E fails \in BOOLEAN :
              IF a.method \in Methods /\ r.ok /\ ~fails
              THEN /\ IF Mongo_onSession(a)
                      THEN txLog' = Append(txLog, s) /\ table' = table
                      ELSE txLog' = txLog /\ table' = r.tbl
                   /\ txIdx' = txIdx + 1
                   /\ stmts' = stmts + 1
                   /\ UNCHANGED <<pc, txErr>>
              ELSE /\ pc' = "rollback"
                   /\ txErr' = IF a.method \in Methods THEN BackendError(1) ELSE ErrInvalidMethod
                   /\ stmts' = IF a.method \in Methods THEN stmts + 1 ELSE stmts
                   /\ UNCHANGED <<table, txLog, txIdx>>
    /\ UNCHANGED <<procVars, dbType, call, ret, op, retryVars, result, pre, txActions, conn,
                   commits, rollbacks, released>>

\* the callback returned: withTransaction commits; success = true
MongoTxCommit ==
    /\ dbType = "mongodb" /\ pc = "tx" /\ txIdx > Len(txActions)
    /\ commits' = commits + 1
    /\ table' = RunAll(table, txLog)
    /\ txLog' = <<>>
    /\ conn' = "committed"
    /\ pc' = "release"
    /\ UNCHANGED <<procVars, dbType, call, ret, op, retryVars, stmts, result, pre, txActions, txIdx,
                   txErr, rollbacks, released>>

\* the callback threw: withTransaction aborts and rethrows; the catch block
\* logs the error and leaves success = false
MongoTxAbort ==
    /\ dbType = "mongodb" /\ pc = "rollback"
    /\ rollbacks' = rollbacks + 1
    /\ txLog' = <<>>
    /\ conn' = "aborted"
    /\ pc' = "release"
    /\ UNCHANGED <<procVars, dbType, call, table, ret, op, retryVars, stmts, result, pre, txActions,
                   txIdx, txErr, commits, released>>

\* finally: await session.endSession(); return success
MongoTxEnd ==
    /\ dbType = "mongodb" /\ pc = "release"
    /\ released' = released + 1
    /\ pc' = "done"
    /\ result' = Returned(conn = "committed", 0, <<>>)
    /\ UNCHANGED <<procVars, dbType, call, table, ret, op, retryVars, stmts, pre, txActions, txIdx,
                   conn, txErr, commits, rollbacks, txLog>>

(* ---------------- DynamoDBService ---------------- *)
Dynamo_getStmt(cond) == Stmt("getItem", <<>>, cond, "", 0, <<>>)
Dynamo_countStmt(cond) == Stmt("scanCount", <<>>, cond, "", 0, <<>>)
Dynamo_incrementStmt(field, amount, cond) == Stmt("incItem", <<>>, cond, field, amount, <<>>)

\* create returns its argument, get the item or null; update, delete and
\* increment return true whatever the request did; getAll returns Items,
\* count returns Count, exists returns !!record of get
Dynamo_return(o, a) ==
    CASE o.name = "get"    -> Returned(a.rows # <<>>, 0, a.rows)
      [] o.name = "getAll" -> Returned(TRUE, Len(a.rows), a.rows)
      [] o.name = "count"  -> Returned(a.n > 0, a.n, <<>>)
      [] o.name = "exists" -> Returned(a.rows # <<>>, 0, <<>>)
      [] OTHER             -> Returned(TRUE, 0, <<>>)

DocumentClientCall(o, s, fails) ==
    LET a == Run(table, s)
    IN  IF a.ok /\ ~fails
        THEN table' = a.tbl /\ Finish(Dynamo_return(o, a), 1)
        ELSE table' = table /\ Finish(Thrown(BackendError(1)), 1)

Dynamo_create(data) ==
    /\ dbType = "dynamodb"
    /\ Issue(Op("create", data, <<>>, <<>>))
    /\ FreshTx /\ FreshRetry
    /\ \E fails \in BOOLEAN :
          DocumentClientCall(Op("create", data, <<>>, <<>>), (Stmt("put", data, <<>>, "", 0, <<>>)), fails)

Dynamo_get(cond) ==
    /\ dbType = "dynamodb"
    /\ Issue(Op("get", <<>>, cond, <<>>))
    /\ FreshTx /\ FreshRetry
    /\ \E fails \in BOOLEAN :
          DocumentClientCall(Op("get", <<>>, cond, <<>>), Dynamo_getStmt(cond), fails)

Dynamo_update(data, cond) ==
    /\ dbType = "dynamodb"
    /\ Issue(Op("update", data, cond, <<>>))
    /\ FreshTx /\ FreshRetry
    /\ \E fails \in BOOLEAN :
          DocumentClientCall(Op("update", data, cond, <<>>), (Stmt("updateItem", data, cond, "", 0, <<>>)), fails)

Dynamo_delete(cond) ==
    /\ dbType = "dynamodb"
    /\ Issue(Op("delete", <<>>, cond, <<>>))
    /\ FreshTx /\ FreshRetry
    /\ \E fails \in BOOLEAN :
          DocumentClientCall(Op("delete", <<>>, cond, <<>>), (Stmt("deleteItem", <<>>, cond, "", 0, <<>>)), fails)

Dynamo_increment(field, amount, cond) ==
    /\ dbType = "dynamodb"
    /\ Issue(Op("increment", One(field, amount), cond, <<>>))
    /\ FreshTx /\ FreshRetry
    /\ \E fails \in BOOLEAN :
          DocumentClientCall(Op("increment", One(field, amount), cond, <<>>),
                             Dynamo_incrementStmt(field, amount, cond), fails)

\* the arguments a caller passes are not looked at
Dynamo_getAll(conds, limit, offset) ==
    /\ dbType = "dynamodb"
    /\ Issue(PageOp("getAll", conds, limit, offset))
    /\ FreshTx /\ FreshRetry
    /\ \E fails \in BOOLEAN :
          DocumentClientCall(PageOp("getAll", conds, limit, offset), PageStmt("scan", <<>>, 0, 0), fails)

Dynamo_count(cond) ==
    /\ dbType = "dynamodb"
    /\ Issue(Op("count", <<>>, cond, <<>>))
    /\ FreshTx /\ FreshRetry
    /\ \E fails \in BOOLEAN :
          DocumentClientCall(Op("count", <<>>, cond, <<>>), Dynamo_countStmt(cond), fails)

\* exists: !!(await this.get(condition))
Dynamo_exists(cond) ==
    /\ dbType = "dynamodb"
    /\ Issue(Op("exists", <<>>, cond, <<>>))
    /\ FreshTx /\ FreshRetry
    /\ \E fails \in BOOLEAN :
          DocumentClientCall(Op("exists", <<>>, cond, <<>>), Dynamo_getStmt(cond), fails)

(* ---------------- DB.getInstance and the drivers' constructors ---------------- *)
MaxInstances == 3   \* drivers constructed in one run

\* the class the switch of getInstance constructs ("none": the default branch)
ClassOf_fallThrough(kind) ==
    CASE kind = "mysql"    -> "MySQLService"
      [] kind = "dynamodb" -> "DynamoDBService"
      [] kind = "mongodb"  -> "DynamoDBService"
      [] OTHER             -> "none"
ClassOf(kind) ==
    CASE kind = "mysql"    -> "MySQLService"
      [] kind = "dynamodb" -> "DynamoDBService"
      [] kind = "mongodb"  -> "MongoDBService"
      [] OTHER             -> "none"

\* a driver object: super(tableName) binds the table name; this.pool is the
\* pool the MySQL constructor made (0: the class has none); this.collection
\* of a MongoDB driver is null until connect() sets it
Driver(class, tableName, pool) ==
    [class |-> class, tableName |-> tableName, pool |-> pool, collection |-> "null"]

\* the constructor of MySQLService throws unless the four settings are present
ConstructorError(class) ==
    IF class = "MySQLService" /\ env # "configured" THEN ErrMissingConfig ELSE ""

FactoryOp(kind, tableName) ==
    [name |-> "getInstance", data |-> <<>>, cond |-> <<>>, items |-> <<>>, limit |-> 0,
     offset |-> 0, dbType |-> kind, tableName |-> tableName]

\* DB.getInstance(dbType, tableName); the caller holds the driver it returns
DB_getInstance(kind, tableName) ==
    /\ pc = "idle"
    /\ Len(instances) < MaxInstances
    /\ call' = "getInstance"
    /\ op' = FactoryOp(kind, tableName)
    /\ LET class == ClassOf(kind)
       IN  IF class = "none"
           THEN /\ Finish(Thrown(ErrInvalidType), 0)
                /\ UNCHANGED <<dbType, instances, pools>>
           ELSE IF ConstructorError(class) # ""
           THEN /\ Finish(Thrown(ConstructorError(class)), 0)
                /\ UNCHANGED <<dbType, instances, pools>>
           ELSE /\ pools' = IF class = "MySQLService" THEN pools + 1 ELSE pools
                /\ instances' = Append(instances,
                       Driver(class, tableName, IF class = "MySQLService" THEN pools + 1 ELSE 0))
                /\ dbType' = kind
                /\ Finish(Returned(TRUE, Len(instances) + 1, <<>>), 0)
    /\ FreshRetry /\ FreshTx
    /\ UNCHANGED <<table, pre, ret, env, mongoClient, clients, connecting, inFlight>>

\* MongoDBService.connect of driver i, up to its await: the first caller that
\* finds mongoClient null constructs the client; the others go on with it
Mongo_connect(i) ==
    /\ i \in 1..Len(instances)
    /\ instances[i].class = "MongoDBService"
    /\ i \notin connecting
    /\ IF mongoClient = "null"
       THEN /\ mongoClient' = "client"
            /\ clients' = clients + 1
            /\ connecting' = connecting \cup {i}
            /\ UNCHANGED instances
       ELSE /\ instances' = [instances EXCEPT ![i].collection = instances[i].tableName]
            /\ UNCHANGED <<mongoClient, clients, connecting>>
    /\ UNCHANGED <<dbType, callVars, env, pools, inFlight>>

\* await mongoClient.connect() of driver i is over: connect() sets this.db and
\* this.collection, or the rejection leaves connect() with them unset
Mongo_connected(i) ==
    /\ i \in connecting
    /\ connecting' = connecting \ {i}
    /\ \E fails \in BOOLEAN :
          instances' = IF fails THEN instances
                       ELSE [instances EXCEPT ![i].collection = instances[i].tableName]
    /\ UNCHANGED <<dbType, callVars, env, pools, mongoClient, clients, inFlight>>

(* ---------------- concurrent calls on the pool of one MySQL driver ---------------- *)
connectionLimit == 10
MaxCallers == 11    \* calls in flight at once

\* the position of a queued call once the pool hands it a connection
Granted(w) ==
    CASE w = "getConnection" -> "connection"
      [] w = "execute"       -> "statement"
      [] OTHER               -> "poolStatement"
\* connections of the pool that are checked out: one per transaction, one per
\* running statement
InUse(f) == f["connection"] + f["execute"] + 2 * f["statement"] + f["poolStatement"]
Callers(f) ==
    f["getConnection"] + f["connection"] + f["execute"] + f["statement"]
      + f["poolExecute"] + f["poolStatement"]
\* waitForConnections: true, queueLimit: 0 - a request that finds no free
\* connection is queued, without bound; the position a request takes
Acquire(f, w) ==
    IF InUse(f) < connectionLimit THEN Granted(w) ELSE w
\* a released connection goes to a queued request if there is one
Handover(f) ==
    LET W == {w \in {"getConnection", "execute", "poolExecute"} : f[w] > 0}
    IN  IF W = {} THEN {f}
        ELSE {[f EXCEPT ![w] = @ - 1, ![Granted(w)] = @ + 1] : w \in W}

\* a caller calls transaction(actions): await this.pool.getConnection()
Pool_transaction ==
    /\ Callers(inFlight) < MaxCallers
    /\ inFlight' = [inFlight EXCEPT ![Acquire(inFlight, "getConnection")] = @ + 1]
    /\ UNCHANGED <<dbType, callVars, env, instances, pools, mongoClient, clients, connecting>>

\* the loop of a transaction reaches an action: this.create / update / delete /
\* increment call this.pool.execute, which needs a connection of the pool
Pool_action ==
    /\ inFlight["connection"] > 0
    /\ inFlight' = [inFlight EXCEPT !["connection"] = @ - 1,
                                     ![Acquire(inFlight, "execute")] = @ + 1]
    /\ UNCHANGED <<dbType, callVars, env, instances, pools, mongoClient, clients, connecting>>

\* the statement of an action is over: pool.execute releases its connection
Pool_actionDone ==
    /\ inFlight["statement"] > 0
    /\ inFlight' \in Handover([inFlight EXCEPT !["statement"] = @ - 1, !["connection"] = @ + 1])
    /\ UNCHANGED <<dbType, callVars, env, instances, pools, mongoClient, clients, connecting>>

\* the loop of a transaction is over or an action threw: commit or rollback,
\* then connection.release()
Pool_transactionDone ==
    /\ inFlight["connection"] > 0
    /\ inFlight' \in Handover([inFlight EXCEPT !["connection"] = @ - 1])
    /\ UNCHANGED <<dbType, callVars, env, instances, pools, mongoClient, clients, connecting>>

\* a caller calls a single operation: await this.pool.execute(...)
Pool_operation ==
    /\ Callers(inFlight) < MaxCallers
    /\ inFlight' = [inFlight EXCEPT ![Acquire(inFlight, "poolExecute")] = @ + 1]
    /\ UNCHANGED <<dbType, callVars, env, instances, pools, mongoClient, clients, connecting>>

Pool_operationDone ==
    /\ inFlight["poolStatement"] > 0
    /\ inFlight' \in Handover([inFlight EXCEPT !["poolStatement"] = @ - 1])
    /\ UNCHANGED <<dbType, callVars, env, instances, pools, mongoClient, clients, connecting>>

(* ---------------- the caller ---------------- *)
\* The caller has its result or error and goes on; the next call starts from
\* the table as it is now.
Continue ==
    /\ pc = "done"
    /\ pc' = "idle"
    /\ call' = "none"
    /\ op' = NoOp
    /\ result' = NoResult
    /\ pre' = <<>>
    /\ stmts' = 0
    /\ ret' = "top"
    /\ FreshRetry
    /\ FreshTx
    /\ UNCHANGED <<dbType, table, procVars>>

\* The caller follows an increment(f, a, C) that returned with
\* increment(f, -a, C) on the same driver; `pre` stays the table before the
\* first of the two calls.
IncrementBack ==
    /\ pc = "done" /\ call = "increment" /\ result.status = "ok"
    /\ call' = "incrementBack"
    /\ LET f == FirstKey(op.data)
           n == 0 - FirstValue(op.data)
           o == Op("increment", One(f, n), op.cond, <<>>)
       IN  /\ op' = o
           /\ \E fails \in BOOLEAN :
                 CASE dbType = "mysql"   -> PoolExecute(o, fails)
                   [] dbType = "mongodb" -> CollectionCall(o, Mongo_incStmt(One(f, n), o.cond), fails)
                   [] OTHER              -> DocumentClientCall(o, Dynamo_incrementStmt(f, n, o.cond), fails)
    /\ UNCHANGED <<dbType, pre, ret, retryVars, txVars, procVars>>

(* ---------------- inputs and the next-state relation ---------------- *)
Arrays == UNION {[1..k -> Datas] : k \in 0..MaxBulk}
Amounts == {-1, 1}              \* increment amounts
Limits == 0..MaxRows            \* limit of getAll
Offsets == {0, 1}               \* offset of getAll
TxActionPool ==
    { Action("create", TRUE, One("a", 1), FALSE, <<>>),
      Action("update", TRUE, One("b", 2), TRUE, One("a", 1)),
      Action("delete", FALSE, <<>>, TRUE, One("a", 1)),
      Action("increment", TRUE, One("b", 1), TRUE, One("a", 1)),
      Action("delete", FALSE, <<>>, FALSE, <<>>),
      Action("upsert", TRUE, One("a", 1), TRUE, One("a", 1)) }
TxLists == UNION {[1..k -> TxActionPool] : k \in 0..MaxTxLen}
\* MongoDBService.transaction reads data! and condition! unchecked: its
\* actions carry the properties their method uses
MongoTxLists == {l \in TxLists : \A i \in 1..Len(l) : MySQL_actionError(l[i]) # ErrNoPayload}

Next ==
    \/ \E d \in Datas : MySQL_create(d)
    \/ \E arr \in Arrays : MySQL_bulkInsert(arr)
    \/ \E c \in Conds : MySQL_get(c)
    \/ \E d \in Datas, c \in Conds : MySQL_update(d, c)
    \/ \E f \in Fields, n \in Amounts, c \in Conds : MySQL_increment(f, n, c)
    \/ \E c \in Conds : MySQL_delete(c)
    \/ \E c \in Conds : MySQL_count(c)
    \/ \E c \in Conds : MySQL_exists(c)
    \/ \E c \in Conds, l \in Limits, o \in Offsets : MySQL_getAll(c, l, o)
    \/ \E c \in Conds : MySQL2_get(c)
    \/ AttemptReturns
    \/ AttemptThrows
    \/ RetryExhausted
    \/ \E actions \in TxLists : MySQL_transaction(actions)
    \/ TxActionThrows
    \/ TxActionRetried
    \/ TxActionDirect
    \/ TxCommit
    \/ TxRollback
    \/ TxRelease
    \/ \E d \in Datas : Mongo_create(d)
    \/ \E c \in Conds : Mongo_get(c)
    \/ \E d \in Datas, c \in Conds : Mongo_update(d, c)
    \/ \E c \in Conds : Mongo_delete(c)
    \/ \E f \in Fields, n \in Amounts, c \in Conds : Mongo_increment(f, n, c)
    \/ \E c \in Conds, l \in Limits, o \in Offsets : Mongo_getAll(c, l, o)
    \/ \E c \in Conds : Mongo_count(c)
    \/ \E c \in Conds : Mongo_exists(c)
    \/ \E actions \in MongoTxLists : Mongo_transaction(actions)
    \/ MongoTxAction
    \/ MongoTxCommit
    \/ MongoTxAbort
    \/ MongoTxEnd
    \/ \E d \in Datas : Dynamo_create(d)
    \/ \E c \in Conds : Dynamo_get(c)
    \/ \E d \in Datas, c \in Conds : Dynamo_update(d, c)
    \/ \E c \in Conds : Dynamo_delete(c)
    \/ \E f \in Fields, n \in Amounts, c \in Conds : Dynamo_increment(f, n, c)
    \/ \E c \in Conds, l \in Limits, o \in Offsets : Dynamo_getAll(c, l, o)
    \/ \E c \in Conds : Dynamo_count(c)
    \/ \E c \in Conds : Dynamo_exists(c)
    \/ Continue

Spec == Init /\ [][Next]_vars

\* The MongoDB driver alone.
InitMongo == Init /\ dbType = "mongodb"
NextMongo ==
    \/ \E d \in Datas : Mongo_create(d)
    \/ \E c \in Conds : Mongo_get(c)
    \/ \E d \in Datas, c \in Conds : Mongo_update(d, c)
    \/ \E c \in Conds : Mongo_delete(c)
    \/ \E actions \in MongoTxLists : Mongo_transaction(actions)
    \/ MongoTxAction
    \/ MongoTxCommit
    \/ MongoTxAbort
    \/ MongoTxEnd
    \/ Continue
SpecMongo == InitMongo /\ [][NextMongo]_vars

\* The operations of the MySQL driver that go through executeWithRetry.
InitRetry == Init /\ dbType = "mysql"
NextRetry ==
    \/ \E d \in Datas : MySQL_create(d)
    \/ \E arr \in Arrays : MySQL_bulkInsert(arr)
    \/ \E c \in Conds : MySQL_get(c)
    \/ \E d \in Datas, c \in Conds : MySQL_update(d, c)
    \/ AttemptReturns
    \/ AttemptThrows
    \/ RetryExhausted
    \/ Continue
SpecRetry == InitRetry /\ [][NextRetry]_vars

\* create and bulkInsert of the MySQL driver over a connection that can be lost
\* after the backend applied a statement.
NextLost ==
    \/ \E d \in Datas : MySQL_create(d)
    \/ \E arr \in Arrays : MySQL_bulkInsert(arr)
    \/ AttemptReturns
    \/ AttemptThrows
    \/ AttemptThrowsApplied
    \/ RetryExhausted
    \/ Continue
SpecLost == InitRetry /\ [][NextLost]_vars

\* create, update and increment of the three drivers, and an increment taken back.
NextInc ==
    \/ \E d \in Datas : MySQL_create(d)
    \/ \E d \in Datas, c \in Conds : MySQL_update(d, c)
    \/ \E d \in Datas, c \in Conds : Mongo_update(d, c)
    \/ \E d \in Datas, c \in Conds : Dynamo_update(d, c)
    \/ AttemptReturns
    \/ AttemptThrows
    \/ RetryExhausted
    \/ \E d \in Datas : Mongo_create(d)
    \/ \E d \in Datas : Dynamo_create(d)
    \/ \E f \in Fields, n \in Amounts, c \in Conds : MySQL_increment(f, n, c)
    \/ \E f \in Fields, n \in Amounts, c \in Conds : Mongo_increment(f, n, c)
    \/ \E f \in Fields, n \in Amounts, c \in Conds : Dynamo_increment(f, n, c)
    \/ IncrementBack
    \/ Continue
SpecInc == Init /\ [][NextInc]_vars

\* DB.getInstance, the constructors and the first connect() of MongoDB drivers.
InitFactory ==
    /\ dbType = "none"
    /\ env \in {"configured", "missing"}
    /\ NoInstances
    /\ NoCall
NextFactory ==
    \/ \E k \in (DbTypes \cup {"postgres", ""}), n \in ({"t", "u"}) : DB_getInstance(k, n)
    \/ \E i \in 1..MaxInstances : Mongo_connect(i)
    \/ \E i \in 1..MaxInstances : Mongo_connected(i)
    \/ Continue
SpecFactory == InitFactory /\ [][NextFactory]_vars

\* MySQLService.transaction alone.
NextTx ==
    \/ \E actions \in TxLists : MySQL_transaction(actions)
    \/ TxActionThrows
    \/ TxActionRetried
    \/ TxActionDirect
    \/ AttemptReturns
    \/ AttemptThrows
    \/ RetryExhausted
    \/ TxCommit
    \/ TxRollback
    \/ TxRelease
    \/ Continue
SpecTx == InitRetry /\ [][NextTx]_vars
\* The steps of a call in progress are continuations the event loop runs once
\* the awaited promise settles (the backend answers every request, a timer
\* fires): a call in progress is not left waiting forever.  The caller is free
\* to issue no further call.
TxStep ==
    \/ TxActionThrows
    \/ TxActionRetried
    \/ TxActionDirect
    \/ AttemptReturns
    \/ AttemptThrows
    \/ RetryExhausted
    \/ TxCommit
    \/ TxRollback
    \/ TxRelease
SpecTxLive == SpecTx /\ WF_vars(TxStep)

\* Concurrent callers of one MySQL driver.
InitPool ==
    /\ dbType = "mysql"
    /\ NoCall
    /\ env = "configured"
    /\ instances = <<Driver("MySQLService", "t", 1)>>
    /\ pools = 1
    /\ mongoClient = "null" /\ clients = 0 /\ connecting = {}
    /\ inFlight = NoCalls
NextPool ==
    \/ Pool_transaction
    \/ Pool_action
    \/ Pool_actionDone
    \/ Pool_transactionDone
    \/ Pool_operation
    \/ Pool_operationDone
SpecPool == InitPool /\ [][NextPool]_vars

TypeOK ==
    /\ dbType \in DbTypes
    /\ Len(table) <= MaxRows
    /\ \A i \in 1..Len(table) : table[i] \in ([Fields -> Vals \cup {NULL}])
    /\ pc \in {"idle", "retry", "tx", "rollback", "release", "done"}
    /\ calls \in 0..maxRetries

(* ======================= the claims ======================= *)
InTransaction == call = "transaction" /\ txActions # <<>>
ActionFailed == txIdx \in 1..Len(txActions) /\ txErr # ""
HasInvalidTag == \E i \in 1..Len(txActions) : txActions[i].method \notin Methods

\* C1: a MySQLService.transaction call in which an action fails leaves the
\* table exactly as it was when the call was issued, and while the call is
\* executing its actions nobody else can see an effect of an earlier action.
C1_RelationalAtomicity ==
    (dbType = "mysql" /\ InTransaction) =>
        /\ (pc = "done" /\ ActionFailed => table = pre)
        /\ (pc \in {"tx", "retry", "rollback"} => table = pre)

\* C2: in the MySQL and the MongoDB driver a transaction whose action list
\* holds an unrecognized method tag ends with an error raised to the caller,
\* and no native commit was issued for it.
C2_InvalidTagFailsCall ==
    (dbType \in {"mysql", "mongodb"} /\ InTransaction /\ HasInvalidTag /\ pc = "done") =>
        /\ result.status = "error"
        /\ commits = 0

\* C3: MongoDBService.transaction issues every action on the session of the
\* call, so nothing reaches the collection before the commit; when an action
\* throws the transaction is aborted and the collection is what it was before
\* the call; when none throws all effects are committed together and the
\* call returns true.
Mongo_allStmts == [i \in 1..Len(txActions) |-> Mongo_actionStmt(txActions[i])]
C4_RetryBound ==
    /\ calls <= 3
    /\ calls \in {Len(errs), Len(errs) + 1}
    /\ (calls = Len(errs) + 1 => pc # "retry")
    /\ delays = [k \in 1..Min(Len(errs), 2) |-> k * 1000]
    /\ (pc = "done" /\ call \in {"create", "bulkInsert", "get", "update"} /\ calls > 0 =>
           IF calls = Len(errs) + 1
           THEN result.status = "ok"
           ELSE result.status = "error" /\ calls = 3 /\ result.err = errs[3])
    /\ (pc = "rollback" /\ ret = "tx" /\ dbType = "mysql" /\ calls > 0 /\ calls = Len(errs) =>
           calls = 3 /\ txErr = errs[3])
C4_Witness ==
    /\ pc = "done" /\ call = "update" /\ calls = 3 /\ result.status = "error"
    /\ delays = <<1000, 2000>> /\ errs[1] # errs[3]

\* C5: between beginTransaction and commit / rollback of MySQLService.transaction
\* every statement of every action is attempted exactly once; the retry wrapper
\* never runs an action again.
C5_NoRetryInTransaction ==
    (dbType = "mysql" /\ InTransaction) => (calls <= 1 /\ delays = <<>>)

\* C6: a create, get, update or bulkInsert of the MySQL driver whose input fails
\* validation fails on the first evaluation: not a second attempt, no backoff
\* delay, no statement sent to the backend.
InvalidInput ==
    \/ call = "create" /\ ~validateData(op.data)
    \/ call = "get" /\ ~validateData(op.cond)
    \/ call = "update" /\ ~(validateData(op.data) /\ validateData(op.cond))
    \/ call = "bulkInsert" /\ Len(op.items) > 0 /\ OpPreError(op) # ""
C6_ValidationNotRetried ==
    (dbType = "mysql" /\ InvalidInput) =>
        /\ calls <= 1 /\ delays = <<>> /\ stmts = 0
        /\ (pc = "done" => result.status = "error" /\ result.err \in ValidationErrors)

\* C7: get with two or more conditions returns a record only if the record has
\* the given value on every condition field, and null when no record has.
C7_GetMatchesAll ==
    (dbType = "mysql" /\ call \in {"get", "get2"} /\ pc = "done" /\ result.status = "ok"
       /\ Len(op.cond) >= 2) =>
        /\ (result.rows # <<>> => MatchAll(result.rows[1], op.cond))
        /\ ((\A i \in 1..Len(pre) : ~MatchAll(pre[i], op.cond)) => result.rows = <<>>)

\* C8: update(data, conditions) overwrites the fields of data on exactly the
\* records that match all conditions, changes nothing else, returns false when
\* nothing matched and true when a record was modified; in each driver.
UpdateExpected(t, d, c) ==
    [i \in 1..Len(t) |-> IF MatchAll(t[i], c) THEN SetFields(t[i], d) ELSE t[i]]
C8_UpdateAllMatching ==
    (call = "update" /\ pc = "done" /\ result.status = "ok") =>
        /\ table = UpdateExpected(pre, op.data, op.cond)
        /\ ((\A i \in 1..Len(pre) : ~MatchAll(pre[i], op.cond)) => ~result.bool)
        /\ (table # pre => result.bool)

\* C9: delete(conditions) removes exactly the records that match all
\* conditions, returns true iff a record was removed, and afterwards no record
\* matches the conditions (get returns null); in each driver.
DeleteExpected(t, c) == Remove(t, {i \in 1..Len(t) : MatchAll(t[i], c)})
C9_DeleteAllMatching ==
    (call = "delete" /\ pc = "done" /\ result.status = "ok") =>
        /\ table = DeleteExpected(pre, op.cond)
        /\ (result.bool <=> Len(table) < Len(pre))
        /\ (\A i \in 1..Len(table) : ~MatchAll(table[i], op.cond))

\* C10: get, update and delete of the MySQL driver reject an empty condition
\* set with a validation error before a statement reaches the backend; count
\* accepts it and counts every record.
C10_EmptyConditionRejected ==
    (dbType = "mysql" /\ pc = "done" /\ op.cond = <<>>) =>
        /\ (call \in {"get", "update", "delete"} =>
               result.status = "error" /\ result.err \in ValidationErrors /\ stmts = 0)
        /\ (call = "count" /\ result.status = "ok" => result.num = Len(pre))

\* the statement each driver's count, exists and increment send
CountStmtOf(kind, c) ==
    CASE kind = "mysql"   -> MySQL_countStmt(c)
      [] kind = "mongodb" -> Mongo_countStmt(c)
      [] OTHER            -> Dynamo_countStmt(c)
ExistsStmtOf(kind, c) ==
    CASE kind = "mysql"   -> MySQL_countStmt(c)
      [] kind = "mongodb" -> Mongo_existsStmt(c)
      [] OTHER            -> Dynamo_getStmt(c)

\* C11: in each driver, getAll(C, {}, L, 0) with L at least the table size
\* returns as many records as count(C) counts on the same table, for every
\* condition set C, the empty one included.
C11_CountEqualsGetAll ==
    (call = "getAll" /\ pc = "done" /\ result.status = "ok"
       /\ op.offset = 0 /\ op.limit >= Len(pre)) =>
        LET a == Run(pre, CountStmtOf(dbType, op.cond))
        IN  a.ok /\ a.n = Len(result.rows)

\* C12: in each driver exists(C) answers, and answers true, exactly when
\* count(C) on the same table answers with a number greater than zero.
C12_ExistsIffCountPositive ==
    /\ (call = "exists" /\ pc = "done" /\ result.status = "ok") =>
           LET a == Run(pre, CountStmtOf(dbType, op.cond))
           IN  a.ok /\ (result.bool <=> a.n > 0)
    /\ (call = "count" /\ pc = "done" /\ result.status = "ok") =>
           LET a == Run(pre, ExistsStmtOf(dbType, op.cond))
           IN  a.ok /\ ((IF dbType = "mysql" THEN a.n > 0 ELSE a.rows # <<>>) <=> result.num > 0)

\* C13: increment(f, a, C) followed by increment(f, -a, C), both returning,
\* leaves field f of every record that had a numeric f at the value it had
\* before the two calls, also when f is one of the fields named in C.
Restored(f) == \A i \in 1..Len(pre) : pre[i][f] # NULL => table[i][f] = pre[i][f]
C13_IncrementInverse ==
    (call = "incrementBack" /\ pc = "done" /\ result.status = "ok") =>
        Restored(FirstKey(op.data))
\* C13 as amended: the same, for a field f that is not named in C.
C13_IncrementInverseOutsideC ==
    (call = "incrementBack" /\ pc = "done" /\ result.status = "ok"
       /\ ~HasKey(op.cond, FirstKey(op.data))) =>
        Restored(FirstKey(op.data))
C13_Witness ==
    /\ call = "incrementBack" /\ pc = "done" /\ result.status = "ok" /\ result.bool
    /\ ~HasKey(op.cond, FirstKey(op.data)) /\ Len(op.cond) = 1
    /\ \E i \in 1..Len(pre) : MatchAll(pre[i], op.cond) /\ pre[i][FirstKey(op.data)] # NULL

\* C14: in each driver, increment(f, a, C) on a table whose only record
\* matching C has no value for f leaves that record with f = a, and the call
\* returns true iff it changed a record.
C14_IncrementMissingField ==
    (call = "increment" /\ pc = "done" /\ result.status = "ok") =>
        LET f == FirstKey(op.data)
            S == Matching(pre, op.cond)
        IN  /\ \A i \in S : (Cardinality(S) = 1 /\ pre[i][f] = NULL) =>
                                table[i][f] = FirstValue(op.data)
            /\ (result.bool <=> table # pre)

\* C15: MySQLService.bulkInsert throws a validation error and inserts nothing
\* when the array is empty or an item's field set differs from the first
\* item's; an insert that is sent stores each item's values under the item's
\* own field names.
C15_BulkInsertShape ==
    (dbType = "mysql" /\ call = "bulkInsert" /\ pc = "done") =>
        /\ (Len(op.items) = 0 \/ \E i \in 1..Len(op.items) : Keys(op.items[i]) # Keys(op.items[1])) =>
               result.status = "error" /\ result.err \in ValidationErrors /\ table = pre
        /\ (result.status = "ok" =>
               table = pre \o [i \in 1..Len(op.items) |-> RowOf(op.items[i])])

\* C16: DB.getInstance returns a driver of the named kind for "mysql",
\* "dynamodb" and "mongodb" and throws for every other kind string without
\* constructing a driver; it never hands out a driver it returned before: each
\* call that returns has constructed one more driver, bound to the table name
\* of that call.
ExpectedClass(kind) ==
    CASE kind = "mysql"    -> "MySQLService"
      [] kind = "dynamodb" -> "DynamoDBService"
      [] kind = "mongodb"  -> "MongoDBService"
      [] OTHER             -> "none"
C16_FactoryDispatch ==
    (call = "getInstance" /\ pc = "done") =>
        IF ExpectedClass(op.dbType) # "none"
        THEN /\ result.status = "ok"
             /\ result.num = Len(instances)
             /\ instances[result.num].class = ExpectedClass(op.dbType)
             /\ instances[result.num].tableName = op.tableName
        ELSE result.status = "error" /\ result.err = ErrInvalidType
\* C16 as amended: the same, with "mysql" constructing a driver only when the
\* four connection settings are present and throwing the configuration error,
\* no driver constructed, when they are not.  Stated of every step that ends a
\* getInstance call.
GetInstanceStep ==
    (pc = "idle" /\ pc' = "done" /\ call' = "getInstance") =>
        LET k == op'.dbType
        IN  IF k \in {"dynamodb", "mongodb"} \/ (k = "mysql" /\ env = "configured")
            THEN /\ result'.status = "ok"
                 /\ Len(instances') = Len(instances) + 1
                 /\ result'.num = Len(instances')
                 /\ SubSeq(instances', 1, Len(instances)) = instances
                 /\ instances'[result'.num].class = ExpectedClass(k)
                 /\ instances'[result'.num].tableName = op'.tableName
            ELSE /\ result'.status = "error"
                 /\ result'.err = (IF k = "mysql" THEN ErrMissingConfig ELSE ErrInvalidType)
                 /\ instances' = instances
C16_FactoryDispatchConfigured == [][GetInstanceStep]_vars
C16_Witness ==
    /\ call = "getInstance" /\ pc = "done" /\ result.status = "ok" /\ result.num = 2
    /\ instances[1].class = instances[2].class
    /\ instances[1].tableName = instances[2].tableName

\* C17: the process never holds more than one MySQL connection pool nor more
\* than one MongoDB client, however many drivers were constructed and however
\* their first operations interleave.
C17_OnePoolOneClient == pools <= 1 /\ clients <= 1

\* C18: while MySQLService.transaction executes its actions, every statement
\* it has issued was issued on the connection beginTransaction was called on,
\* and no action runs inside a public single-operation method.
C18_StatementsOnTxConnection ==
    (dbType = "mysql" /\ InTransaction) =>
        /\ pc # "retry"
        /\ (pc = "tx" => stmts = Len(txLog))

\* C19: a MySQLService.transaction call that acquired a connection executes
\* its actions one after the other in list order and ends either committed
\* (one commit that succeeded, no rollback, returns true) or rolled back (one
\* rollback invoked, an error thrown), never both and never neither; whatever
\* failed, beginTransaction, commit and rollback included, the connection is
\* released exactly once before the call ends.
C19_Terminal ==
    (dbType = "mysql" /\ InTransaction) =>
        /\ commits <= 1 /\ rollbacks <= 1 /\ released <= 1
        /\ (conn = "none" => commits = 0 /\ rollbacks = 0 /\ released = 0)
        /\ (pc \in {"tx", "retry"} =>
               /\ conn = "begun" /\ commits = 0 /\ rollbacks = 0 /\ released = 0
               /\ txIdx \in 1..(Len(txActions) + 1))
        /\ (commits = 1 => txIdx = Len(txActions) + 1)
        /\ (pc \in {"rollback", "release"} => released = 0)
        /\ (pc = "done" /\ conn # "none" =>
               /\ released = 1
               /\ \/ /\ conn = "committed" /\ commits = 1 /\ rollbacks = 0
                     /\ result.status = "ok" /\ result.bool
                  \/ /\ conn \in {"rolled back", "rollback failed"} /\ rollbacks = 1
                     /\ result.status = "error")
C19_InOrder ==
    (dbType = "mysql" /\ InTransaction /\ pc \in {"tx", "retry"}) =>
        /\ txIdx' \in {txIdx, txIdx + 1}
        /\ (txIdx' = txIdx + 1 => pc' = "tx" /\ txErr' = "")
        /\ (op' # op => txIdx \in 1..Len(txActions) /\ op' = ActionOp(txActions[txIdx]))
        /\ (pc' = "release" => txIdx = Len(txActions) + 1)
C19_Ends == (dbType = "mysql" /\ InTransaction /\ pc # "done") ~> (pc = "done")
PoolStuck ==
    /\ InUse(inFlight) = connectionLimit
    /\ inFlight["execute"] = connectionLimit
\* C20: with the pool of a MySQL driver bounded at 10 connections and its
\* queue unbounded, no number of concurrent calls leads to a state in which
\* every connection of the pool is held by a transaction that is itself
\* queued for a connection of the pool (from such a state no call completes).
C20_PoolProgress == ~PoolStuck

\* C21: one call of MySQLService.create adds at most one record to the table
\* and one call of bulkInsert of n items adds at most n records, whatever
\* attempts of the retry loop fail, an attempt that fails after the backend
\* applied its INSERT included.
C21_InsertAtMostOnce ==
    /\ (dbType = "mysql" /\ call = "create" => Len(table) <= Len(pre) + 1)
    /\ (dbType = "mysql" /\ call = "bulkInsert" => Len(table) <= Len(pre) + Len(op.items))

====
